---- MODULE Spec2Model ----
(***************************************************************************)
(* Model of search_service/api/filter.py: BaseFilterAPI.post and its two   *)
(* subclasses SearchTableFilterAPI / SearchDashboardFilterAPI.             *)
(*                                                                         *)
(* One request body and one programmed proxy behaviour are handed to both  *)
(* resources; each resource walks through post() statement by statement    *)
(* (pc), so that the calls it makes and the response it gives can be       *)
(* compared.  Python's None is the empty sequence <<>>, a value v that is  *)
(* not None is <<v>>.  Strings are sequences of one-character strings.     *)
(***************************************************************************)
EXTENDS Integers, Sequences, FiniteSets, TLC

VARIABLES body, proxy_effect, pc, args, calls, results, exc, response

vars == <<body, proxy_effect, pc, args, calls, results, exc, response>>

-----------------------------------------------------------------------------
(* Bounds of the model *)

MaxTermLen == 3
MaxPageIndex == 1
MaxResults == 2

-----------------------------------------------------------------------------
(* Values *)

None == <<>>
Some(v) == <<v>>

Chars == {"a", ":"}

Strings(n) == UNION {[1..k -> Chars] : k \in 0..n}

\* JSON values of a request body: integers, strings and objects.
JInt(n) == [type |-> "int", int |-> n, str |-> <<>>, obj |-> {}]
JStr(s) == [type |-> "str", int |-> 0, str |-> s, obj |-> {}]
JObj(o) == [type |-> "obj", int |-> 0, str |-> <<>>, obj |-> o]

Resources == {"table", "dashboard"}

\* The four arguments registered on the parser, in registration order.
ArgNames == <<"index", "page_index", "query_term", "search_request">>

TABLE_INDEX == <<"t", "a", "b", "l", "e">>

DEFAULT_PAGE_INDEX == 0

OK == 200
BAD_REQUEST == 400
INTERNAL_SERVER_ERROR == 500

MSG_NO_SEARCH_REQUEST == "The search request payload is not available in the request"
MSG_INVALID_CHARACTER == "The query term contains an invalid character"
MSG_EXCEPTION == "Exception encountered while processing search request"
MSG_UNKNOWN_ARGUMENTS == "Unknown arguments"
MSG_BUNDLED_ERRORS == "errors"

-----------------------------------------------------------------------------
(* Inputs *)

IndexValues == {JStr(<<"a">>)}
PageIndexValues == {JInt(n) : n \in 0..MaxPageIndex} \cup {JStr(<<"a">>)}
QueryTermValues == {JStr(s) : s \in Strings(MaxTermLen)}
SearchRequestValues ==
    {JObj({}), JObj({<<"resource", "table">>}), JInt(1)}

FieldValues(f) ==
    CASE f = "index" -> IndexValues
      [] f = "page_index" -> PageIndexValues
      [] f = "query_term" -> QueryTermValues
      [] f = "search_request" -> SearchRequestValues
      [] f = "bogus" -> {JInt(1)}

FieldNames == {"index", "page_index", "query_term", "search_request", "bogus"}

Opt(S) == {None} \cup {Some(v) : v \in S}

\* A request body is a JSON object: a function from the fields it carries.
MakeBody(o) == [f \in {g \in FieldNames : o[g] # None} |-> o[f][1]]

Bodies ==
    {MakeBody(o) : o \in [index : Opt(IndexValues),
                          page_index : Opt(PageIndexValues),
                          query_term : Opt(QueryTermValues),
                          search_request : Opt(SearchRequestValues),
                          bogus : Opt(FieldValues("bogus"))]}

RawResults == {"r1", "r2"}
ResultSeqs == UNION {[1..k -> RawResults] : k \in 0..MaxResults}

ExceptionTypes == {"RuntimeError", "NotImplementedError", "ConnectionError"}
ExceptionTexts == {"boom", "secret"}

NoException == [type |-> "", text |-> ""]

\* What the proxy client does when called: return a sequence or raise.
ProxyEffects ==
    {[raises |-> FALSE, results |-> rs, exc |-> NoException] : rs \in ResultSeqs}
    \cup
    {[raises |-> TRUE, results |-> <<>>, exc |-> [type |-> t, text |-> x]] :
        t \in ExceptionTypes, x \in ExceptionTexts}

-----------------------------------------------------------------------------
(* Python helpers *)

\* Variant: only the first character is examined.
contains_first_only(c, s) == Len(s) >= 1 /\ s[1] = c

\* c in s
contains(c, s) == \E i \in 1..Len(s) : s[i] = c

\* Variant: the exact type only, subclasses not matched.
issubclass_exact(t, base) == t = base

\* issubclass(t, base) for the exception types of the model
issubclass(t, base) ==
    \/ t = base
    \/ t = "NotImplementedError" /\ base = "RuntimeError"

\* type=str, type=int, type=dict applied to a JSON value: <<ok, value>>
py_str(v) == [ok |-> v.type = "str", value |-> Some(v.str)]
py_int(v) == [ok |-> v.type = "int", value |-> Some(v.int)]
py_dict(v) == [ok |-> v.type = "obj", value |-> Some(v.obj)]

convert(name, v) ==
    CASE name = "index" -> py_str(v)
      [] name = "page_index" -> py_int(v)
      [] name = "query_term" -> py_str(v)
      [] name = "search_request" -> py_dict(v)

\* Variant: the defaults of index and page_index are not registered.
default_unregistered(name) == None

default(name) ==
    CASE name = "index" -> Some(TABLE_INDEX)
      [] name = "page_index" -> Some(DEFAULT_PAGE_INDEX)
      [] name = "query_term" -> None
      [] name = "search_request" -> None

Registered == {ArgNames[i] : i \in 1..Len(ArgNames)}

\* Argument.parse: the converted value, or the default when the body
\* does not carry the argument.
parse_argument(b, name) ==
    IF name \in DOMAIN b THEN convert(name, b[name]).value ELSE default(name)

argument_errors(b) ==
    {name \in Registered \cap DOMAIN b : ~convert(name, b[name]).ok}

unparsed_arguments(b) == DOMAIN b \ Registered

\* Variant: parse_args() without strict=True.
parse_args_not_strict(b) ==
    [errors |-> argument_errors(b),
     unparsed |-> {},
     namespace |-> [name \in Registered |-> parse_argument(b, name)]]

\* RequestParser(bundle_errors=True).parse_args(strict=True)
parse_args(b) ==
    [errors |-> argument_errors(b),
     unparsed |-> unparsed_arguments(b),
     namespace |-> [name \in Registered |-> parse_argument(b, name)]]

schema(r) == IF r = "table" THEN "SearchTableResultSchema"
             ELSE "SearchDashboardResultSchema"

\* Variant: many=True forgotten, one result serialized.
dump_one(s, rs) ==
    IF rs = <<>> THEN <<>> ELSE <<[schema |-> s, result |-> rs[1]]>>

\* schema(many=True).dump(results).data
dump(s, rs) == [i \in 1..Len(rs) |-> [schema |-> s, result |-> rs[i]]]

-----------------------------------------------------------------------------
(* State *)

NoArgs == [name \in Registered |-> None]
NoResponse == [status |-> 0, message |-> "", errors |-> {}, data |-> <<>>]

Message(status, msg) ==
    [status |-> status, message |-> msg, errors |-> {}, data |-> <<>>]

Terminal == {"returned", "aborted", "raised"}

EmptyBody == MakeBody([f \in FieldNames |-> None])
NoEffect == [raises |-> FALSE, results |-> <<>>, exc |-> NoException]

\* After construction no request is being handled.
Init ==
    /\ body = EmptyBody
    /\ proxy_effect = NoEffect
    /\ pc = [r \in Resources |-> "idle"]
    /\ args = [r \in Resources |-> NoArgs]
    /\ calls = [r \in Resources |-> <<>>]
    /\ results = [r \in Resources |-> <<>>]
    /\ exc = [r \in Resources |-> NoException]
    /\ response = [r \in Resources |-> NoResponse]

\* A request body is posted to both resources; the proxy client is
\* programmed with what it will do when called.
Receive ==
    /\ \A r \in Resources : pc[r] = "idle"
    /\ body' \in Bodies
    /\ proxy_effect' \in ProxyEffects
    /\ pc' = [r \in Resources |-> "parse"]
    /\ UNCHANGED <<args, calls, results, exc, response>>

-----------------------------------------------------------------------------
(* BaseFilterAPI.post, statement by statement *)

\* args = self.parser.parse_args(strict=True)
Parse(r) ==
    /\ pc[r] = "parse"
    /\ LET p == parse_args(body) IN
         IF p.errors # {}
         THEN /\ response' = [response EXCEPT ![r] =
                      [status |-> BAD_REQUEST, message |-> MSG_BUNDLED_ERRORS,
                       errors |-> p.errors, data |-> <<>>]]
              /\ pc' = [pc EXCEPT ![r] = "aborted"]
              /\ UNCHANGED args
         ELSE IF p.unparsed # {}
         THEN /\ response' = [response EXCEPT ![r] =
                      [status |-> BAD_REQUEST, message |-> MSG_UNKNOWN_ARGUMENTS,
                       errors |-> p.unparsed, data |-> <<>>]]
              /\ pc' = [pc EXCEPT ![r] = "aborted"]
              /\ UNCHANGED args
         ELSE /\ args' = [args EXCEPT ![r] = p.namespace]
              /\ pc' = [pc EXCEPT ![r] = "check_search_request"]
              /\ UNCHANGED response
    /\ UNCHANGED <<body, proxy_effect, calls, results, exc>>

\* Variant: the return of the 400 response is missing.
CheckSearchRequest_no_return(r) ==
    /\ pc[r] = "check_search_request"
    /\ pc' = [pc EXCEPT ![r] = "check_query_term"]
    /\ UNCHANGED <<body, proxy_effect, args, calls, results, exc, response>>

\* if search_request is None: return 400
CheckSearchRequest(r) ==
    /\ pc[r] = "check_search_request"
    /\ IF args[r].search_request = None
       THEN /\ response' = [response EXCEPT ![r] =
                    Message(BAD_REQUEST, MSG_NO_SEARCH_REQUEST)]
            /\ pc' = [pc EXCEPT ![r] = "returned"]
       ELSE /\ pc' = [pc EXCEPT ![r] = "check_query_term"]
            /\ UNCHANGED response
    /\ UNCHANGED <<body, proxy_effect, args, calls, results, exc>>

\* if ':' in query_term: return 400.  The test raises TypeError when
\* query_term is None; the statement is outside the try of the base class
\* and inside the try of the subclass.
CheckQueryTerm(r) ==
    /\ pc[r] = "check_query_term"
    /\ IF args[r].query_term = None
       THEN /\ exc' = [exc EXCEPT ![r] =
                    [type |-> "TypeError", text |-> "NoneType is not iterable"]]
            /\ pc' = [pc EXCEPT ![r] = "except_sub"]
            /\ UNCHANGED response
       ELSE IF contains(":", args[r].query_term[1])
       THEN /\ response' = [response EXCEPT ![r] =
                    Message(BAD_REQUEST, MSG_INVALID_CHARACTER)]
            /\ pc' = [pc EXCEPT ![r] = "returned"]
            /\ UNCHANGED exc
       ELSE /\ pc' = [pc EXCEPT ![r] = "call"]
            /\ UNCHANGED <<response, exc>>
    /\ UNCHANGED <<body, proxy_effect, args, calls, results>>

\* results = self.proxy.fetch_search_results_with_filter(...)
CallProxy(r) ==
    /\ pc[r] = "call"
    /\ calls' = [calls EXCEPT ![r] = Append(@,
                    [search_request |-> args[r].search_request,
                     query_term |-> args[r].query_term,
                     page_index |-> args[r].page_index,
                     index |-> args[r].index])]
    /\ IF proxy_effect.raises
       THEN /\ exc' = [exc EXCEPT ![r] = proxy_effect.exc]
            /\ pc' = [pc EXCEPT ![r] = "except_base"]
            /\ UNCHANGED results
       ELSE /\ results' = [results EXCEPT ![r] = proxy_effect.results]
            /\ pc' = [pc EXCEPT ![r] = "dump"]
            /\ UNCHANGED exc
    /\ UNCHANGED <<body, proxy_effect, args, response>>

\* return self.schema(many=True).dump(results).data, HTTPStatus.OK
Dump(r) ==
    /\ pc[r] = "dump"
    /\ response' = [response EXCEPT ![r] =
           [status |-> OK, message |-> "", errors |-> {},
            data |-> dump(schema(r), results[r])]]
    /\ pc' = [pc EXCEPT ![r] = "returned"]
    /\ UNCHANGED <<body, proxy_effect, args, calls, results, exc>>

\* Variant: the except clause calls the proxy a second time.
ExceptBase_retry(r) ==
    /\ pc[r] = "except_base"
    /\ calls' = [calls EXCEPT ![r] = Append(@, @[1])]
    /\ pc' = [pc EXCEPT ![r] = "except_sub"]
    /\ UNCHANGED <<body, proxy_effect, args, results, exc, response>>

\* except RuntimeError as e: raise e  -- the exception leaves the base
\* post() whether or not the clause matches it.
ExceptBase(r) ==
    /\ pc[r] = "except_base"
    /\ pc' = [pc EXCEPT ![r] = "except_sub"]
    /\ UNCHANGED <<body, proxy_effect, args, calls, results, exc, response>>

\* Variant: the message carries the text of the exception.
ExceptSub_leaks_text(r) ==
    /\ pc[r] = "except_sub"
    /\ IF issubclass(exc[r].type, "RuntimeError")
       THEN /\ response' = [response EXCEPT ![r] =
                    Message(INTERNAL_SERVER_ERROR, exc[r].text)]
            /\ pc' = [pc EXCEPT ![r] = "returned"]
       ELSE /\ pc' = [pc EXCEPT ![r] = "raised"]
            /\ UNCHANGED response
    /\ UNCHANGED <<body, proxy_effect, args, calls, results, exc>>

\* Variant: the dashboard resource catches Exception, the table resource
\* RuntimeError.
ExceptSub_dashboard_catches_all(r) ==
    /\ pc[r] = "except_sub"
    /\ IF r = "dashboard" \/ issubclass(exc[r].type, "RuntimeError")
       THEN /\ response' = [response EXCEPT ![r] =
                    Message(INTERNAL_SERVER_ERROR, MSG_EXCEPTION)]
            /\ pc' = [pc EXCEPT ![r] = "returned"]
       ELSE /\ pc' = [pc EXCEPT ![r] = "raised"]
            /\ UNCHANGED response
    /\ UNCHANGED <<body, proxy_effect, args, calls, results, exc>>

\* except RuntimeError: return 500  (SearchTableFilterAPI.post and
\* SearchDashboardFilterAPI.post)
ExceptSub(r) ==
    /\ pc[r] = "except_sub"
    /\ IF issubclass(exc[r].type, "RuntimeError")
       THEN /\ response' = [response EXCEPT ![r] =
                    Message(INTERNAL_SERVER_ERROR, MSG_EXCEPTION)]
            /\ pc' = [pc EXCEPT ![r] = "returned"]
       ELSE /\ pc' = [pc EXCEPT ![r] = "raised"]
            /\ UNCHANGED response
    /\ UNCHANGED <<body, proxy_effect, args, calls, results, exc>>

\* Both resources are through with the request; nothing of it is kept.
Finish ==
    /\ \A r \in Resources : pc[r] \in Terminal
    /\ body' = EmptyBody
    /\ proxy_effect' = NoEffect
    /\ pc' = [r \in Resources |-> "idle"]
    /\ args' = [r \in Resources |-> NoArgs]
    /\ calls' = [r \in Resources |-> <<>>]
    /\ results' = [r \in Resources |-> <<>>]
    /\ exc' = [r \in Resources |-> NoException]
    /\ response' = [r \in Resources |-> NoResponse]

Next ==
    \/ \E r \in Resources : Parse(r)
    \/ \E r \in Resources : CheckSearchRequest(r)
    \/ \E r \in Resources : CheckQueryTerm(r)
    \/ \E r \in Resources : CallProxy(r)
    \/ \E r \in Resources : Dump(r)
    \/ \E r \in Resources : ExceptBase(r)
    \/ \E r \in Resources : ExceptSub(r)
    \/ Receive
    \/ Finish

Spec == Init /\ [][Next]_vars

-----------------------------------------------------------------------------
(* Vocabulary of the properties, stated on the request body itself *)

Done(r) == pc[r] \in Terminal

Carries(f) == f \in DOMAIN body

HasUnknownField ==
    \E f \in DOMAIN body :
        f \notin {"index", "page_index", "query_term", "search_request"}

HasWrongType ==
    \/ Carries("index") /\ body["index"].type # "str"
    \/ Carries("page_index") /\ body["page_index"].type # "int"
    \/ Carries("query_term") /\ body["query_term"].type # "str"
    \/ Carries("search_request") /\ body["search_request"].type # "obj"

BodyParses == ~HasUnknownField /\ ~HasWrongType

HasColon(s) == \E i \in 1..Len(s) : s[i] = ":"

TermHasColon == Carries("query_term") /\ HasColon(body["query_term"].str)

TermIsClean == Carries("query_term") /\ ~HasColon(body["query_term"].str)

ValidRequest == BodyParses /\ Carries("search_request") /\ TermIsClean

ExpectedPageIndex ==
    IF Carries("page_index") THEN body["page_index"].int ELSE 0

ExpectedIndex ==
    IF Carries("index") THEN body["index"].str ELSE TABLE_INDEX

ExpectedCall ==
    [search_request |-> <<body["search_request"].obj>>,
     query_term |-> <<body["query_term"].str>>,
     page_index |-> <<ExpectedPageIndex>>,
     index |-> <<ExpectedIndex>>]

SchemaOf(r) == IF r = "table" THEN "SearchTableResultSchema"
               ELSE "SearchDashboardResultSchema"

Serialized(r, rs) == [i \in 1..Len(rs) |-> [schema |-> SchemaOf(r), result |-> rs[i]]]

Generic500 ==
    [status |-> 500,
     message |-> "Exception encountered while processing search request",
     errors |-> {}, data |-> <<>>]

ProxyFailed(r) == Len(calls[r]) >= 1 /\ proxy_effect.raises

-----------------------------------------------------------------------------
(* C1 *)

\* C1: a request that parses, carries search_request and carries a
\* query_term without ':' makes exactly one proxy call, with exactly the
\* parsed values, and when the proxy returns a sequence the response is 200
\* with that sequence serialized element by element by the resource's schema.
C1_ValidRequestCallsProxyOnceAndReturns200 ==
    \A r \in Resources :
        (Done(r) /\ ValidRequest) =>
            /\ calls[r] = <<ExpectedCall>>
            /\ ~proxy_effect.raises =>
                  /\ pc[r] = "returned"
                  /\ response[r].status = 200
                  /\ response[r].data = Serialized(r, proxy_effect.results)

C1_Witness ==
    /\ ValidRequest
    /\ \A r \in Resources : pc[r] = "returned" /\ response[r].status = 200
    /\ Len(proxy_effect.results) = 2
    /\ response["table"].data # response["dashboard"].data

C1_WitnessEmpty ==
    /\ ValidRequest
    /\ pc["table"] = "returned" /\ response["table"].status = 200
    /\ response["table"].data = <<>>

-----------------------------------------------------------------------------
(* C2 *)

\* C2 as stated: every request whose query_term contains ':' is answered
\* 400 with the invalid-character message and makes no proxy call.
C2_Original ==
    \A r \in Resources :
        (Done(r) /\ TermHasColon) =>
            /\ response[r].status = 400
            /\ response[r].message = "The query term contains an invalid character"
            /\ calls[r] = <<>>

\* C2 amended: every request whose query_term contains ':' is answered 400
\* and makes no proxy call; the message is the invalid-character message
\* when the body parses and search_request is present.
C2_ColonRejectedBeforeProxy ==
    \A r \in Resources :
        (Done(r) /\ TermHasColon) =>
            /\ response[r].status = 400
            /\ calls[r] = <<>>
            /\ (BodyParses /\ Carries("search_request")) =>
                  /\ pc[r] = "returned"
                  /\ response[r].message = "The query term contains an invalid character"

C2_Witness ==
    /\ BodyParses /\ Carries("search_request")
    /\ Carries("query_term") /\ body["query_term"].str = <<"a", ":", "a">>
    /\ \A r \in Resources :
          /\ pc[r] = "returned"
          /\ response[r].message = "The query term contains an invalid character"

-----------------------------------------------------------------------------
(* C3 *)

\* C3 as stated: every request without search_request is answered 400 with
\* the missing-payload message and makes no proxy call, whatever the other
\* fields are.
C3_Original ==
    \A r \in Resources :
        (Done(r) /\ ~Carries("search_request")) =>
            /\ response[r].status = 400
            /\ response[r].message = "The search request payload is not available in the request"
            /\ calls[r] = <<>>

\* C3 amended: every request without search_request is answered 400 and
\* makes no proxy call; the message is the missing-payload message when the
\* body parses (query_term omitted or containing ':' included).
C3_MissingSearchRequestRejected ==
    \A r \in Resources :
        (Done(r) /\ ~Carries("search_request")) =>
            /\ response[r].status = 400
            /\ calls[r] = <<>>
            /\ BodyParses =>
                  /\ pc[r] = "returned"
                  /\ response[r].message = "The search request payload is not available in the request"

C3_Witness ==
    /\ BodyParses /\ ~Carries("search_request") /\ ~Carries("query_term")
    /\ \A r \in Resources :
          /\ pc[r] = "returned"
          /\ response[r].message = "The search request payload is not available in the request"

C3_WitnessColon ==
    /\ BodyParses /\ ~Carries("search_request") /\ TermHasColon
    /\ pc["dashboard"] = "returned"
    /\ response["dashboard"].message = "The search request payload is not available in the request"

-----------------------------------------------------------------------------
(* C4 *)

\* C4: when the proxy call raises RuntimeError, the table and the dashboard
\* resource answer 500 with the fixed message; the response is the same
\* record whatever the text of the error.
C4_RuntimeErrorGives500 ==
    \A r \in Resources :
        (Done(r) /\ ProxyFailed(r) /\ proxy_effect.exc.type = "RuntimeError") =>
            /\ pc[r] = "returned"
            /\ response[r] = Generic500
            /\ response[r].message # proxy_effect.exc.text

C4_Witness ==
    /\ proxy_effect.raises
    /\ proxy_effect.exc = [type |-> "RuntimeError", text |-> "secret"]
    /\ \A r \in Resources : Len(calls[r]) = 1 /\ response[r].status = 500

-----------------------------------------------------------------------------
(* C5 *)

C5_WitnessPropagates ==
    /\ proxy_effect.raises /\ proxy_effect.exc.type = "ConnectionError"
    /\ Len(calls["table"]) = 1
    /\ pc["table"] = "raised"

-----------------------------------------------------------------------------
(* C6 *)

\* C6: a request that parses, carries search_request and omits query_term
\* completes without an exception leaving post(), calls the proxy once and
\* is answered 200, or 500 when the proxy fails.
C6_OmittedQueryTermIsHandled ==
    \A r \in Resources :
        (Done(r) /\ BodyParses /\ Carries("search_request")
                 /\ ~Carries("query_term")) =>
            /\ pc[r] = "returned"
            /\ Len(calls[r]) = 1
            /\ response[r].status \in {200, 500}

-----------------------------------------------------------------------------
(* C7 *)

C7_WitnessWrongType ==
    /\ HasWrongType /\ ~HasUnknownField
    /\ pc["table"] = "aborted" /\ response["table"].errors = {"page_index"}

-----------------------------------------------------------------------------
(* C8 *)

\* C8: in the proxy call, page_index is 0 when the body omits it and index
\* is the table index name when the body omits it, on both resources; a
\* supplied page_index or index is passed unchanged.
C8_DefaultsAndPassThrough ==
    \A r \in Resources :
        Len(calls[r]) >= 1 =>
            /\ calls[r][1].page_index =
                  (IF Carries("page_index") THEN <<body["page_index"].int>> ELSE <<0>>)
            /\ calls[r][1].index =
                  (IF Carries("index") THEN <<body["index"].str>> ELSE <<TABLE_INDEX>>)

C8_Witness ==
    /\ ~Carries("page_index") /\ ~Carries("index")
    /\ Len(calls["dashboard"]) = 1
    /\ calls["dashboard"][1].page_index = <<0>>
    /\ calls["dashboard"][1].index = <<TABLE_INDEX>>

C8_WitnessSupplied ==
    /\ Carries("page_index") /\ Carries("index")
    /\ Len(calls["table"]) = 1
    /\ calls["table"][1].page_index = <<1>>
    /\ calls["table"][1].index = <<<<"a">>>>

-----------------------------------------------------------------------------
(* C9 *)

\* C9: for every body and every proxy behaviour, the two resources make
\* the same proxy calls, end the same way, and give the same status and the
\* same message; only the data of a 200 response differs, by the schema.
C9_TableAndDashboardAgree ==
    (Done("table") /\ Done("dashboard")) =>
        /\ calls["table"] = calls["dashboard"]
        /\ pc["table"] = pc["dashboard"]
        /\ exc["table"] = exc["dashboard"]
        /\ response["table"].status = response["dashboard"].status
        /\ response["table"].message = response["dashboard"].message
        /\ response["table"].errors = response["dashboard"].errors
        /\ Len(response["table"].data) = Len(response["dashboard"].data)
        /\ \A i \in 1..Len(response["table"].data) :
              response["table"].data[i].result = response["dashboard"].data[i].result

C9_Witness ==
    /\ Done("table") /\ Done("dashboard")
    /\ proxy_effect.raises /\ proxy_effect.exc.type = "ConnectionError"
    /\ Len(calls["table"]) = 1 /\ Len(calls["dashboard"]) = 1

C9_WitnessOk ==
    /\ Done("table") /\ Done("dashboard")
    /\ response["table"].status = 200
    /\ Len(response["table"].data) = 1
    /\ response["table"].data[1].schema # response["dashboard"].data[1].schema

-----------------------------------------------------------------------------
(* C10 *)

\* C10: within one request the proxy is called at most once: the list of
\* calls of a resource changes only by its first call, made before any
\* exception or response of that request, or by being emptied when the
\* request is over; so a failed call is not retried and nothing is called
\* after a response.
C10_AtMostOneCallPerRequest ==
    [][\A r \in Resources :
          calls'[r] # calls[r] =>
              \/ /\ calls[r] = <<>>
                 /\ Len(calls'[r]) = 1
                 /\ ~Done(r)
                 /\ exc[r] = NoException
                 /\ response[r] = NoResponse
              \/ /\ calls'[r] = <<>>
                 /\ Done(r)
                 /\ pc'[r] = "idle"]_vars

C10_Witness ==
    /\ proxy_effect.raises /\ proxy_effect.exc.type = "RuntimeError"
    /\ pc["table"] = "returned" /\ response["table"].status = 500
    /\ Len(calls["table"]) = 1

====
